---------------------------- MODULE Spec2Model ----------------------------
(***************************************************************************)
(* Model of the IIIF manifest generator of ti.info.iiif:                   *)
(*   - the page sequence builder (class IIIF: __init__, manifests,         *)
(*     genPages, getSizes, getRotations, getPageSeq), specification Spec;  *)
(*   - the template resolver (parseIIIF with resolveConstants and          *)
(*     substituteConstants, and fillinIIIF), specification SpecResolver.   *)
(* Page identifiers, folders and files are atoms (TLA+ strings).  In the   *)
(* resolver a Python string is a sequence of one-character strings, so     *)
(* that str.replace and the test data == pattern are computed, not         *)
(* assumed.                                                                *)
(***************************************************************************)
EXTENDS Integers, Sequences, FiniteSets, TLC

(***************************************************************************)
(* Bounds of the model.                                                    *)
(***************************************************************************)
\* the page inventory holds at most MaxRefs page references in total
MaxRefs == 3
\* ... and at most MaxZoneRefs when the references are zone based
MaxZoneRefs == 2
\* manifests() is started at most MaxRuns times on one object
MaxRuns == 1
\* constants in the batches of the settings
MaxConstants == 2
\* parts of the text of a template
MaxParts == 2

(***************************************************************************)
(* Program constants.                                                      *)
(***************************************************************************)
FILE_NOT_FOUND == "filenotfound"
FILE_NOT_FOUND_SIZES == <<480, 640>>
\* Python's None, as it is passed for folder and file
None == "None"

(***************************************************************************)
(* The inventory and the value domains the inputs are drawn from.          *)
(***************************************************************************)
\* the folders of the inventory, in inventory order (self.folders)
FolderList == <<"A", "B">>
\* the files of a folder, in inventory order (file level manifests); B has none
FilesOf(folder) == IF folder = "A" THEN <<"f1", "f2">> ELSE <<>>
FolderSet == {FolderList[k] : k \in 1..Len(FolderList)}
FileSet(folder) == {FilesOf(folder)[k] : k \in 1..Len(FilesOf(folder))}
PageIds == {"p1", "p2"}
CoverIds == {"c1"}
Kinds == {"pages", "covers"}
Prods == {"preview", "pub", "dev"}
\* the width and height a size index holds for a page, when it has an entry
SizeOf(p) == IF p = "p1" THEN <<100, 200>> ELSE IF p = "p2" THEN <<300, 400>> ELSE <<50, 60>>
\* the rotation the rotation file holds for a page, when it has a row
RotOf(p) == IF p = "p1" THEN 90 ELSE 180

\* A page reference: a bare string, or (zone based) a sequence of strings.
StrRef(s) == [isStr |-> TRUE, s |-> s, elems |-> <<>>]
SeqRef(q) == [isStr |-> FALSE, s |-> "", elems |-> q]
PlainRefs == {StrRef(p) : p \in PageIds}
ZoneRefs == {StrRef("p1"), SeqRef(<<>>), SeqRef(<<"p1">>), SeqRef(<<"p1", "r1">>),
             SeqRef(<<"p1", "r2", "x">>)}
RefsFor(zb) == IF zb THEN ZoneRefs ELSE PlainRefs
RefBound(zb) == IF zb THEN MaxZoneRefs ELSE MaxRefs

SeqsUpTo(S, n) == UNION {[1..k -> S] : k \in 0..n}
\* the concatenation of the sequences of q
RECURSIVE Concat(_)
Concat(q) == IF q = <<>> THEN <<>> ELSE Head(q) \o Concat(Tail(q))
\* the number of elements of the sequences of q
RECURSIVE SumLen(_)
SumLen(q) == IF q = <<>> THEN 0 ELSE Len(Head(q)) + SumLen(Tail(q))

\* the ways to hand out at most n page references to the slots of S:
\* functions D -> lists, D a subset of S (a slot outside D is absent)
RECURSIVE Distribute(_, _, _)
Distribute(S, R, n) ==
    IF S = {} THEN {[x \in {} |-> <<>>]}
    ELSE LET s == CHOOSE x \in S : TRUE
             absent == Distribute(S \ {s}, R, n)
             present == UNION {{[x \in DOMAIN d \cup {s} |-> IF x = s THEN l ELSE d[x]] :
                                   d \in Distribute(S \ {s}, R, n - Len(l))} :
                               l \in SeqsUpTo(R, n)}
         IN absent \cup present

\* the units (folder, file) of the inventory
Units == {u \in FolderSet \X {"f1", "f2", "f3"} : u[2] \in FileSet(u[1])}

\* page data of folder level manifests: folder -> list of page references;
\* of file level manifests: folder -> file -> list of page references
\* (what getPageInfo delivers; a folder or a file may be absent from it)
PageDataFor(level, zb) ==
    IF level = "folder" THEN Distribute(FolderSet, RefsFor(zb), RefBound(zb))
    ELSE UNION {{[fo \in fos |->
                    [fi \in {f \in FileSet(fo) : <<fo, f>> \in DOMAIN d} |-> d[<<fo, fi>>]]] :
                  fos \in {F \in SUBSET FolderSet : \A u \in DOMAIN d : u[1] \in F}} :
                d \in Distribute(Units, RefsFor(zb), RefBound(zb))}

\* the page identifier a reference names once decoded ("NA" for an empty one)
RefPage(r) == IF r.isStr THEN r.s ELSE IF Len(r.elems) = 0 THEN "NA" ELSE r.elems[1]
ListPages(l) == {RefPage(l[k]) : k \in 1..Len(l)}
\* the page identifiers the page data mentions
Mentioned(level, pd) ==
    IF level = "folder" THEN UNION {ListPages(pd[fo]) : fo \in DOMAIN pd}
    ELSE UNION {UNION {ListPages(pd[fo][fi]) : fi \in DOMAIN pd[fo]} : fo \in DOMAIN pd}

\* a size index over a set of identifiers: some of them have an entry
SizeIndexes(ids) == {[p \in D |-> SizeOf(p)] : D \in SUBSET ids}
\* the rows of rotation_pages.tsv: some of the identifiers have a row
RotationIndexes(ids) == {[p \in D |-> RotOf(p)] : D \in SUBSET ids}

(***************************************************************************)
(* State.                                                                  *)
(***************************************************************************)
VARIABLES
    pc,              \* where the caller of the object is
    error,           \* self.error
    prod,            \* the deployment target
    manifestLevel,   \* self.manifestLevel: "folder" or "file"
    zoneBased,       \* settings["zoneBased"]
    doCovers,        \* self.doCovers
    constantsIsList, \* whether settings["constants"] is a list of batches, once read
    excludedFolders, \* the folders excluded in the configuration
    sizeInfo,        \* self.sizeInfo: kind -> page -> (width, height)
    rotateInfo,      \* self.rotateInfo: page -> rotation
    pages,           \* self.pages: pages and covers
    missingFiles,    \* self.missingFiles: (kind, file, page) -> count
    scanFiles,       \* the files under scanRefDir: (kind, name)
    docs,            \* the manifest documents under manifestDir: path -> data
    folderDirs,      \* the folder directories under manifestDir
    outputs,         \* viewer files, logo directory, report, final totals
    runs,            \* number of manifests() runs started
    loop,            \* manifests: position in the folder and file loops
    tot,             \* manifests: the totals p, i, m
    gp,              \* genPages: its arguments and local variables (of the last pass
                     \* of the loop: p0, region as decoded, p after fallback)
    ret,             \* the value the last finished genPages call returned
    nFofCopy,        \* kind -> number of copies made of the placeholder image
    rpc,             \* resolver: where its caller is
    rin,             \* resolver: the settings and the arguments given to parseIIIF
    rres,            \* resolver: what parseIIIF delivered
    rfill,           \* resolver: what fillinIIIF made of the resolved section
    rsub             \* resolver: what parseIIIF made of the resolved section

config == <<prod, manifestLevel, zoneBased, doCovers, constantsIsList,
            excludedFolders, sizeInfo, rotateInfo, pages>>
fs == <<scanFiles, docs, folderDirs, outputs, nFofCopy>>
bvars == <<pc, error, config, missingFiles, fs, runs, loop, tot, gp, ret>>
rvars == <<rpc, rin, rres, rfill, rsub>>
vars == <<bvars, rvars>>

EmptyMap == [x \in {} |-> 0]
NoCall == [kind |-> None, folder |-> None, file |-> None, thesePages |-> <<>>,
           nPages |-> 0, p0 |-> None, p |-> None, region |-> None, itemsSeen |-> {}, items |-> <<>>,
           caller |-> None]
NoOutputs == [nInitTree |-> 0, miradorHtmlOut |-> FALSE, coversHtmlOut |-> FALSE,
              logoDir |-> FALSE,
              report |-> [written |-> FALSE, rows |-> EmptyMap, nMissing |-> 0],
              reported |-> [written |-> FALSE, m |-> 0, i |-> 0, p |-> 0]]

\* dict.get(k, default)
Get(d, k, default) == IF k \in DOMAIN d THEN d[k] ELSE default

(***************************************************************************)
(* The state before the constructor runs: nothing is loaded.               *)
(***************************************************************************)
BInit ==
    /\ pc = "new"
    /\ error = FALSE
    /\ prod = "dev"
    /\ manifestLevel = "folder"
    /\ zoneBased = FALSE
    /\ doCovers = FALSE
    /\ constantsIsList = "unread"
    /\ excludedFolders = {}
    /\ sizeInfo = EmptyMap
    /\ rotateInfo = EmptyMap
    /\ pages = [pages |-> EmptyMap, covers |-> <<>>]
    /\ missingFiles = EmptyMap
    /\ scanFiles = {}
    /\ docs = EmptyMap
    /\ folderDirs = {}
    /\ outputs = NoOutputs
    /\ runs = 0
    /\ loop = [f |-> 0, j |-> 0, folderI |-> 0]
    /\ tot = [p |-> 0, i |-> 0, m |-> 0]
    /\ gp = NoCall
    /\ ret = <<>>
    /\ nFofCopy = [k \in Kinds |-> 0]

(***************************************************************************)
(* Values of the settings file and of the manifests: a string is the       *)
(* sequence of its characters, a dictionary the sequence of its keys, in   *)
(* insertion order, with the sequence of its values.                       *)
(***************************************************************************)
Str(s) == [t |-> "str", s |-> s, n |-> 0, keys |-> <<>>, items |-> <<>>]
IntV(n) == [t |-> "int", s |-> <<>>, n |-> n, keys |-> <<>>, items |-> <<>>]
NoneV == [t |-> "none", s |-> <<>>, n |-> 0, keys |-> <<>>, items |-> <<>>]
ListV(items) == [t |-> "list", s |-> <<>>, n |-> 0, keys |-> <<>>, items |-> items]
DictV(keys, items) == [t |-> "dict", s |-> <<>>, n |-> 0, keys |-> keys, items |-> items]

\* what parseIIIF and fillinIIIF have delivered before they are called
NoInput == [constants |-> <<>>, section |-> NoneV, kwargs |-> <<>>]
NoResult == [status |-> "unset", val |-> NoneV, constants |-> <<>>, errors |-> <<>>,
             console |-> <<>>]
NoFill == [args |-> <<>>, val |-> NoneV, again |-> NoneV]

\* the resolver is not in use
RIdle ==
    /\ rpc = "off"
    /\ rin = NoInput
    /\ rres = NoResult
    /\ rfill = NoFill
    /\ rsub = NoResult

Init == BInit /\ RIdle

(***************************************************************************)
(* IIIF.__init__                                                           *)
(***************************************************************************)
\* the exclusion is not looked at
FolderCheckFails_IgnoresExclusion(excluded, properPages) ==
    \E k \in 1..Len(FolderList) : FolderList[k] \notin DOMAIN properPages
\* the loop over the inventory: some folder is neither excluded nor in the page data
FolderCheckFails(excluded, properPages) ==
    \E k \in 1..Len(FolderList) :
        /\ FolderList[k] \notin excluded
        /\ FolderList[k] \notin DOMAIN properPages

Construct ==
    /\ pc = "new"
    /\ pc' = "idle"
    /\ \/ \* the configuration did not load: the flag is set, nothing else is
          /\ error' = TRUE
          /\ UNCHANGED <<config, scanFiles>>
       \/ \E pr \in Prods, lv \in {"folder", "file"}, zb \in BOOLEAN,
             ex \in SUBSET FolderSet, cst \in {"none", "present", "missing"} :
          \E pd \in PageDataFor(lv, zb) :
          \* the indexes and the scan directory are drawn over the pages the
          \* inventory mentions: no other entry is ever looked up.  A served
          \* deployment never inspects the scan files; elsewhere the size index
          \* lists existing files only.  The rotation file has one table for all
          \* kinds: it may name a cover
          \E sf \in SUBSET (IF pr \in {"preview", "pub"} THEN {} ELSE Mentioned(lv, pd) \cap PageIds) :
          \E sp \in SizeIndexes(IF pr \in {"preview", "pub"} THEN Mentioned(lv, pd) \cap PageIds ELSE sf),
             ri \in RotationIndexes((Mentioned(lv, pd) \cap {"p1"})
                                        \cup (IF cst = "none" THEN {} ELSE CoverIds)) :
             /\ prod' = pr
             /\ manifestLevel' = lv
             /\ zoneBased' = zb
             /\ doCovers' = (cst # "none")
             /\ constantsIsList' = "unread"
             /\ excludedFolders' = ex
             /\ sizeInfo' = IF cst = "none" THEN [k \in {"pages"} |-> sp]
                            ELSE [k \in Kinds |-> IF k = "pages" THEN sp
                                                  ELSE IF cst = "present" THEN [c \in CoverIds |-> SizeOf(c)]
                                                  ELSE EmptyMap]
             /\ rotateInfo' = ri
             /\ pages' = [pages |-> pd, covers |-> IF cst = "none" THEN <<>> ELSE <<StrRef("c1")>>]
             /\ scanFiles' = {<<"pages", p>> : p \in sf} \cup
                             (IF cst = "present" /\ pr \notin {"preview", "pub"}
                              THEN {<<"covers", c>> : c \in CoverIds} ELSE {})
             /\ error' = FolderCheckFails(ex, pd)
    /\ UNCHANGED <<missingFiles, docs, folderDirs, outputs, nFofCopy, runs, loop, tot, gp, ret>>
    /\ UNCHANGED rvars

(***************************************************************************)
(* IIIF.genPages                                                           *)
(***************************************************************************)
\* the early return on the error flag
GenPagesReturnsEarly == error

\* an excluded folder has no page references
ThesePages_SkipExcluded(level, pgs, kind, folder, file) ==
    IF folder \in excludedFolders \/ folder \notin DOMAIN pgs.pages THEN <<>>
    ELSE IF level = "folder" THEN pgs.pages[folder]
    ELSE Get(pgs.pages[folder], file, <<>>)
\* the list of page references of the unit; genPages is called as manifests
\* calls it: covers without folder and file, pages with a folder and, in file
\* level manifests, a file
ThesePages(level, pgs, kind, folder, file) ==
    LET things == IF kind = "covers" THEN pgs.covers ELSE pgs.pages
    IN IF folder = None THEN things
       ELSE IF folder \notin DOMAIN things THEN <<>>
       ELSE IF level = "folder" THEN things[folder]
       ELSE Get(things[folder], file, <<>>)

\* the region taken from the last element instead of the second
DecodeRef_LastElement(zb, ref) ==
    IF zb
    THEN IF ref.isStr THEN <<ref.s, "full">>
         ELSE IF Len(ref.elems) = 0 THEN <<"NA", "full">>
         ELSE IF Len(ref.elems) = 1 THEN <<ref.elems[1], "full">>
         ELSE <<ref.elems[1], ref.elems[Len(ref.elems)]>>
    ELSE <<ref.s, "full">>
\* a page reference decoded into (page identifier, region)
DecodeRef(zb, ref) ==
    IF zb
    THEN IF ref.isStr THEN <<ref.s, "full">>
         ELSE IF Len(ref.elems) = 0 THEN <<"NA", "full">>
         ELSE IF Len(ref.elems) = 1 THEN <<ref.elems[1], "full">>
         ELSE <<ref.elems[1], ref.elems[2]>>
    ELSE <<ref.s, "full">>

\* fileExists(f"{scanRefDir}/{kind}/{name}.{ext}")
ScanFileExists(files, kind, name) == <<kind, name>> \in files

\* presence is an entry in the size index for every deployment
ScanPresent_SizeIndexOnly(pr, kind, p, sizeI, files) == p \in DOMAIN sizeI
\* scanPresent: by the size index when served, by the scan file otherwise
ScanPresent(pr, kind, p, sizeI, files) ==
    IF pr \in {"preview", "pub"} THEN p \in DOMAIN sizeI
    ELSE ScanFileExists(files, kind, p)

\* the fallback keeps the page identifier of the reference
Resolved_KeepsPage(present, kind, p, sizeI, rotI) ==
    IF present
    THEN [p |-> p, w |-> Get(sizeI, p, <<0, 0>>)[1], h |-> Get(sizeI, p, <<0, 0>>)[2],
          rot |-> IF kind = "covers" THEN 0 ELSE Get(rotI, p, 0)]
    ELSE [p |-> p, w |-> FILE_NOT_FOUND_SIZES[1], h |-> FILE_NOT_FOUND_SIZES[2], rot |-> 0]
\* the page identifier, width, height and rotation of a reference, after fallback
Resolved(present, kind, p, sizeI, rotI) ==
    IF present
    THEN LET wh == Get(sizeI, p, <<0, 0>>)
         IN [p |-> p, w |-> wh[1], h |-> wh[2],
             rot |-> IF kind = "covers" THEN 0 ELSE Get(rotI, p, 0)]
    ELSE [p |-> FILE_NOT_FOUND, w |-> FILE_NOT_FOUND_SIZES[1],
          h |-> FILE_NOT_FOUND_SIZES[2], rot |-> 0]

\* the occurrence is counted after p was replaced by the fallback identifier
CountMissing_AfterFallback(mf, kind, file, p) ==
    LET key == <<kind, file, FILE_NOT_FOUND>>
    IN [k \in DOMAIN mf \cup {key} |-> IF k = key THEN Get(mf, key, 0) + 1 ELSE mf[k]]
\* missingFiles.setdefault(kind, {}).setdefault(file, Counter())[p] += 1
CountMissing(mf, kind, file, p) ==
    LET key == <<kind, file, p>>
    IN [k \in DOMAIN mf \cup {key} |-> IF k = key THEN Get(mf, key, 0) + 1 ELSE mf[k]]

\* a key without the page identifier
ItemKey_NoPage(r) == <<r.w, r.h, r.rot>>
ItemKey(r) == <<r.p, r.w, r.h, r.rot>>

\* no reference is ever dropped
KeySeen_Never(key, itemsSeen) == FALSE
\* the test that drops a reference whose key was seen before
KeySeen(key, itemsSeen) == key \in itemsSeen

\* the placeholder image is copied for every fallback item
CopiesPlaceholder_EveryFallback(present, files, kind) == ~present
\* the placeholder image is copied for a fallback item when it is not there yet
CopiesPlaceholder(present, files, kind) ==
    ~present /\ ~ScanFileExists(files, kind, FILE_NOT_FOUND)

\* the item takes the whole page whatever the region of the reference
Item_FullRegion(folder, file, r, region) ==
    [folder |-> folder, file |-> file, page |-> r.p, region |-> "full",
     width |-> r.w, height |-> r.h, rot |-> r.rot]
\* the item: the template pageItem (coverItem) filled in with its arguments
Item(folder, file, r, region) ==
    [folder |-> folder, file |-> file, page |-> r.p, region |-> region,
     width |-> r.w, height |-> r.h, rot |-> r.rot]

\* the item is put before the items that are there
AddItem_InFront(items, it) == <<it>> \o items
\* items.append(item)
AddItem(items, it) == Append(items, it)

\* the path of the manifest document of a unit, below manifestDir
DocPath(level, folder, file) ==
    IF level = "folder" THEN <<folder>> ELSE <<folder, file>>

\* open(path, "w") succeeds when the directory of the path exists
CanWrite(path, dirs) == Len(path) = 1 \/ path[1] \in dirs

\* what the caller does with the value genPages returns
Return(caller, thisP, thisI) ==
    /\ ret' = <<thisP, thisI>>
    /\ CASE caller = "covers" ->
              /\ pc' = "m_loop"
              /\ UNCHANGED <<tot, loop>>
         [] caller = "folder" ->
              /\ pc' = "m_loop"
              /\ tot' = [p |-> tot.p + thisP, i |-> tot.i + thisI,
                         m |-> tot.m + (IF thisI # 0 THEN 1 ELSE 0)]
              /\ loop' = [loop EXCEPT !.f = @ + 1]
         [] caller = "file" ->
              /\ pc' = "m_files"
              /\ tot' = [p |-> tot.p + thisP, i |-> tot.i + thisI,
                         m |-> tot.m + (IF thisI # 0 THEN 1 ELSE 0)]
              /\ loop' = [loop EXCEPT !.j = @ + 1, !.folderI = @ + thisI]
         [] OTHER ->
              /\ pc' = "idle"
              /\ UNCHANGED <<tot, loop>>

\* genPages up to the loop over the page references
GenPagesEntry(kind, folder, file, caller) ==
    /\ UNCHANGED <<error, prod, manifestLevel, zoneBased, doCovers, excludedFolders,
                   sizeInfo, rotateInfo, pages, missingFiles, fs, runs>>
    /\ UNCHANGED rvars
    /\ IF GenPagesReturnsEarly
       THEN /\ Return(caller, 0, 0)
            /\ UNCHANGED <<gp, constantsIsList>>
       ELSE \E shape \in (IF constantsIsList = "unread" THEN {"list", "mapping"}
                          ELSE {constantsIsList}) :
               /\ constantsIsList' = shape
               /\ IF shape = "list"
                  THEN \* settings.get("constants", {}).get: a list has no get
                       /\ pc' = "crashed"
                       /\ UNCHANGED <<gp, ret, tot, loop>>
                  ELSE /\ pc' = "gp"
                       /\ gp' = [kind |-> kind,
                                 folder |-> IF kind = "covers" THEN "covers" ELSE folder,
                                 file |-> file,
                                 thesePages |-> ThesePages(manifestLevel, pages, kind, folder, file),
                                 nPages |-> 0, p0 |-> None, p |-> None, region |-> None,
                                 itemsSeen |-> {}, items |-> <<>>, caller |-> caller]
                       /\ UNCHANGED <<ret, tot, loop>>

\* one pass of the loop over the page references
GenPagesPage ==
    /\ pc = "gp"
    /\ gp.nPages < Len(gp.thesePages)
    /\ LET d == DecodeRef(zoneBased, gp.thesePages[gp.nPages + 1])
           sizeI == Get(sizeInfo, gp.kind, EmptyMap)
           present == ScanPresent(prod, gp.kind, d[1], sizeI, scanFiles)
           r == Resolved(present, gp.kind, d[1], sizeI, rotateInfo)
           key == ItemKey(r)
           copy == CopiesPlaceholder(present, scanFiles, gp.kind)
       IN /\ missingFiles' = IF present THEN missingFiles
                             ELSE CountMissing(missingFiles, gp.kind, gp.file, d[1])
          /\ IF KeySeen(key, gp.itemsSeen)
             THEN /\ gp' = [gp EXCEPT !.nPages = @ + 1, !.p0 = d[1], !.p = r.p, !.region = d[2]]
                  /\ UNCHANGED <<scanFiles, nFofCopy>>
             ELSE /\ gp' = [gp EXCEPT !.nPages = @ + 1, !.p0 = d[1], !.p = r.p, !.region = d[2],
                                      !.itemsSeen = @ \cup {key},
                                      !.items = AddItem(@, Item(gp.folder, gp.file, r, d[2]))]
                  /\ scanFiles' = IF copy THEN scanFiles \cup {<<gp.kind, FILE_NOT_FOUND>>}
                                  ELSE scanFiles
                  /\ nFofCopy' = IF copy THEN [nFofCopy EXCEPT ![gp.kind] = @ + 1]
                                 ELSE nFofCopy
    /\ UNCHANGED <<pc, error, config, docs, folderDirs, outputs, runs, loop, tot, ret>>
    /\ UNCHANGED rvars

\* genPages after the loop: the document is written and the counts returned
GenPagesEnd ==
    /\ pc = "gp"
    /\ gp.nPages = Len(gp.thesePages)
    /\ LET nItems == Len(gp.items)
           path == DocPath(manifestLevel, gp.folder, gp.file)
           data == [folder |-> gp.folder, file |-> gp.file, items |-> gp.items]
       IN IF nItems # 0 /\ ~CanWrite(path, folderDirs)
          THEN /\ pc' = "crashed"
               /\ UNCHANGED <<docs, ret, tot, loop>>
          ELSE /\ docs' = IF nItems # 0
                          THEN [q \in DOMAIN docs \cup {path} |-> IF q = path THEN data ELSE docs[q]]
                          ELSE docs
               /\ Return(gp.caller, gp.nPages, nItems)
    /\ UNCHANGED <<error, config, missingFiles, scanFiles, folderDirs, outputs,
                   nFofCopy, runs, gp>>
    /\ UNCHANGED rvars

(***************************************************************************)
(* IIIF.manifests                                                          *)
(***************************************************************************)
\* manifests without its early return
ManifestsReturnsEarly_Never == FALSE
\* the early return on the error flag
ManifestsReturnsEarly == error

ManifestsNoop ==
    /\ pc = "idle"
    /\ ManifestsReturnsEarly
    /\ UNCHANGED vars

\* manifests up to the first call of genPages
ManifestsStart ==
    /\ pc = "idle"
    /\ ~ManifestsReturnsEarly
    /\ runs < MaxRuns
    /\ runs' = runs + 1
    /\ docs' = EmptyMap
    /\ folderDirs' = {}
    /\ outputs' = [outputs EXCEPT !.nInitTree = @ + 1, !.miradorHtmlOut = TRUE,
                                  !.coversHtmlOut = @ \/ doCovers]
    /\ missingFiles' = EmptyMap
    /\ tot' = [p |-> 0, i |-> 0, m |-> 0]
    /\ loop' = [f |-> 1, j |-> 0, folderI |-> 0]
    /\ pc' = IF doCovers THEN "m_covers" ELSE "m_loop"
    /\ UNCHANGED <<error, config, scanFiles, nFofCopy, gp, ret>>
    /\ UNCHANGED rvars

CallCovers ==
    /\ pc = "m_covers"
    /\ GenPagesEntry("covers", None, None, "covers")

\* folder level: the loop over the folders calls genPages
CallFolder ==
    /\ pc = "m_loop"
    /\ manifestLevel = "folder"
    /\ loop.f <= Len(FolderList)
    /\ GenPagesEntry("pages", FolderList[loop.f], None, "folder")

\* file level: the loop over the folders initialises the folder directory
FolderBegin ==
    /\ pc = "m_loop"
    /\ manifestLevel # "folder"
    /\ loop.f <= Len(FolderList)
    /\ folderDirs' = folderDirs \cup {FolderList[loop.f]}
    /\ docs' = [q \in {x \in DOMAIN docs : ~(Len(x) = 2 /\ x[1] = FolderList[loop.f])} |-> docs[q]]
    /\ loop' = [loop EXCEPT !.j = 1, !.folderI = 0]
    /\ pc' = "m_files"
    /\ UNCHANGED <<error, config, missingFiles, scanFiles, outputs, nFofCopy, runs, tot, gp, ret>>
    /\ UNCHANGED rvars

CallFile ==
    /\ pc = "m_files"
    /\ loop.j <= Len(FilesOf(FolderList[loop.f]))
    /\ GenPagesEntry("pages", FolderList[loop.f], FilesOf(FolderList[loop.f])[loop.j], "file")

\* no folder directory is ever removed
FolderIsEmpty_Never(folderI) == FALSE
\* the test on the items of the files of a folder
FolderIsEmpty(folderI) == folderI = 0

\* file level: after the files of a folder, a folder without items is removed
FolderEnd ==
    /\ pc = "m_files"
    /\ loop.j > Len(FilesOf(FolderList[loop.f]))
    /\ IF FolderIsEmpty(loop.folderI)
       THEN /\ folderDirs' = folderDirs \ {FolderList[loop.f]}
            /\ docs' = [q \in {x \in DOMAIN docs : ~(Len(x) = 2 /\ x[1] = FolderList[loop.f])} |-> docs[q]]
       ELSE UNCHANGED <<folderDirs, docs>>
    /\ loop' = [loop EXCEPT !.f = @ + 1]
    /\ pc' = "m_loop"
    /\ UNCHANGED <<error, config, missingFiles, scanFiles, outputs, nFofCopy, runs, tot, gp, ret>>
    /\ UNCHANGED rvars

\* the rows are counted instead of the occurrences
SumCounts_Rows(mf, D) == Cardinality(D)
\* nMissing: the sum of the counts of the registry
RECURSIVE SumCounts(_, _)
SumCounts(mf, D) ==
    IF D = {} THEN 0
    ELSE LET k == CHOOSE x \in D : TRUE IN mf[k] + SumCounts(mf, D \ {k})

\* manifests after the loops: the logos, the report of missing files, the totals
ManifestsFinish ==
    /\ pc = "m_loop"
    /\ loop.f > Len(FolderList)
    /\ \E logoInDir \in BOOLEAN :
          outputs' = [outputs EXCEPT
                         !.logoDir = @ \/ logoInDir,
                         !.report = [written |-> TRUE, rows |-> missingFiles,
                                     nMissing |-> SumCounts(missingFiles, DOMAIN missingFiles)],
                         !.reported = [written |-> TRUE, m |-> tot.m, i |-> tot.i, p |-> tot.p]]
    /\ pc' = "idle"
    /\ UNCHANGED <<error, config, missingFiles, scanFiles, docs, folderDirs, nFofCopy,
                   runs, loop, tot, gp, ret>>
    /\ UNCHANGED rvars

(***************************************************************************)
(* Calls from outside while the object is idle.                            *)
(***************************************************************************)
\* genPages called directly; with the error flag unset it is manifests that
\* calls it, after it has set up the registry of missing files
DirectGenPages ==
    /\ pc = "idle"
    /\ error
    /\ \E kind \in Kinds, folder \in {"A", None}, file \in {"f1", None} :
          GenPagesEntry(kind, folder, file, "direct")

\* getSizes, getRotations, getPageSeq: an early return on the error flag,
\* otherwise the index is loaded again from files that have not changed
GetSizes ==
    /\ pc = "idle"
    /\ sizeInfo' = IF error THEN sizeInfo ELSE [k \in DOMAIN sizeInfo |-> sizeInfo[k]]
    /\ UNCHANGED <<pc, error, prod, manifestLevel, zoneBased, doCovers, constantsIsList,
                   excludedFolders, rotateInfo, pages, missingFiles, fs, runs, loop, tot, gp, ret>>
    /\ UNCHANGED rvars

GetRotations ==
    /\ pc = "idle"
    /\ rotateInfo' = IF error THEN rotateInfo ELSE [k \in DOMAIN rotateInfo |-> rotateInfo[k]]
    /\ UNCHANGED <<pc, error, prod, manifestLevel, zoneBased, doCovers, constantsIsList,
                   excludedFolders, sizeInfo, pages, missingFiles, fs, runs, loop, tot, gp, ret>>
    /\ UNCHANGED rvars

GetPageSeq ==
    /\ pc = "idle"
    /\ pages' = IF error THEN pages ELSE [pages |-> pages.pages, covers |-> pages.covers]
    /\ UNCHANGED <<pc, error, prod, manifestLevel, zoneBased, doCovers, constantsIsList,
                   excludedFolders, sizeInfo, rotateInfo, missingFiles, fs, runs, loop, tot, gp, ret>>
    /\ UNCHANGED rvars

Next ==
    \/ Construct
    \/ ManifestsNoop
    \/ ManifestsStart
    \/ CallCovers
    \/ CallFolder
    \/ FolderBegin
    \/ CallFile
    \/ FolderEnd
    \/ GenPagesPage
    \/ GenPagesEnd
    \/ ManifestsFinish
    \/ DirectGenPages
    \/ GetSizes
    \/ GetRotations
    \/ GetPageSeq


Spec == Init /\ [][Next]_vars

(***************************************************************************)
(* Strings                                                                 *)
(***************************************************************************)
\* sub in data
Contains(data, sub) ==
    \E i \in 1..(Len(data) - Len(sub) + 1) : SubSeq(data, i, i + Len(sub) - 1) = sub

\* data.replace(pat, rep): the occurrences from left to right, not overlapping
RECURSIVE Replace(_, _, _)
Replace(data, pat, rep) ==
    IF Len(data) < Len(pat) THEN data
    ELSE IF SubSeq(data, 1, Len(pat)) = pat
         THEN rep \o Replace(SubSeq(data, Len(pat) + 1, Len(data)), pat, rep)
         ELSE <<Head(data)>> \o Replace(Tail(data), pat, rep)

DigitChar(d) == <<"0", "1", "2", "3", "4", "5", "6", "7", "8", "9">>[d + 1]

\* str(n) of an integer
RECURSIVE Digits(_)
Digits(n) ==
    IF n < 0 THEN <<"-">> \o Digits(-n)
    ELSE IF n < 10 THEN <<DigitChar(n)>>
    ELSE Digits(n \div 10) \o <<DigitChar(n % 10)>>

\* str(v)
StrOf(v) ==
    CASE v.t = "str" -> v.s
      [] v.t = "int" -> Digits(v.n)
      [] OTHER -> <<"N", "o", "n", "e">>

\* f"«{k}»"
ConstPattern(k) == <<"«">> \o k \o <<"»">>
\* f"[[{k}]]"
ArgPattern(k) == <<"[", "[">> \o k \o <<"]", "]">>
\* "{" + k + "}"
FillPattern(k) == <<"{">> \o k \o <<"}">>

(***************************************************************************)
(* The loop over the placeholders of one kind, of substituteConstants and  *)
(* of fillinIIIF: an integer takes the place of the string that is, when   *)
(* the loop comes to it, exactly its placeholder, and ends the loop.       *)
(***************************************************************************)
\* an integer takes the place of any string
RECURSIVE PlaceholderLoop_AlwaysPromote(_, _, _, _)
PlaceholderLoop_AlwaysPromote(data, pairs, open, close) ==
    IF pairs = <<>> THEN Str(data)
    ELSE IF Head(pairs).v.t = "int" THEN Head(pairs).v
    ELSE PlaceholderLoop_AlwaysPromote(
             Replace(data, open \o Head(pairs).k \o close, StrOf(Head(pairs).v)),
             Tail(pairs), open, close)

RECURSIVE PlaceholderLoop(_, _, _, _)
PlaceholderLoop(data, pairs, open, close) ==
    IF pairs = <<>> THEN Str(data)
    ELSE LET k == Head(pairs).k
             v == Head(pairs).v
             pattern == open \o k \o close
         IN  IF v.t = "int" /\ data = pattern
             THEN v
             ELSE PlaceholderLoop(Replace(data, pattern, StrOf(v)), Tail(pairs), open, close)

(***************************************************************************)
(* fillinIIIF                                                              *)
(***************************************************************************)
RECURSIVE fillinIIIF(_, _)
fillinIIIF(data, kwargs) ==
    CASE data.t = "str" -> PlaceholderLoop(data.s, kwargs, <<"{">>, <<"}">>)
      [] data.t \in {"list", "dict"} ->
            [data EXCEPT !.items = [i \in DOMAIN data.items |-> fillinIIIF(data.items[i], kwargs)]]
      [] OTHER -> data

(***************************************************************************)
(* parseIIIF.resolveConstants                                              *)
(***************************************************************************)
\* constants[k] = v: a key that is there keeps its place
DictSet(pairs, k, v) ==
    IF \E i \in DOMAIN pairs : pairs[i].k = k
    THEN [i \in DOMAIN pairs |-> IF pairs[i].k = k THEN [k |-> k, v |-> v] ELSE pairs[i]]
    ELSE Append(pairs, [k |-> k, v |-> v])

\* the value after the replacement of the constants known so far
RECURSIVE ReplaceKnown(_, _)
ReplaceKnown(v, constants) ==
    IF constants = <<>> THEN v
    ELSE ReplaceKnown(Replace(v, ConstPattern(Head(constants).k), StrOf(Head(constants).v)),
                      Tail(constants))

\* only the opening delimiter is looked for
Unresolved_OpenOnly(v) == Contains(v, <<"«">>)
\* "«" in v or "»" in v
Unresolved(v) == Contains(v, <<"«">>) \/ Contains(v, <<"»">>)

\* one pass of the inner loop: entry e of batch i
ResolveEntry(i, e, acc) ==
    IF e.v.t = "str"
    THEN LET v == ReplaceKnown(e.v.s, acc.constants)
         IN  [constants |-> DictSet(acc.constants, e.k, Str(v)),
              errors |-> IF Unresolved(v)
                         THEN Append(acc.errors, [batch |-> i, k |-> e.k, v |-> v])
                         ELSE acc.errors]
    ELSE [constants |-> DictSet(acc.constants, e.k, e.v), errors |-> acc.errors]

RECURSIVE ResolveBatch(_, _, _)
ResolveBatch(i, entries, acc) ==
    IF entries = <<>> THEN acc
    ELSE ResolveBatch(i, Tail(entries), ResolveEntry(i, Head(entries), acc))

RECURSIVE ResolveFrom(_, _, _)
ResolveFrom(source, i, acc) ==
    IF i > Len(source) THEN acc
    ELSE ResolveFrom(source, i + 1, ResolveBatch(i, source[i], acc))

resolveConstants(source) == ResolveFrom(source, 1, [constants |-> <<>>, errors |-> <<>>])

(***************************************************************************)
(* parseIIIF.substituteConstants: the value, the errors it appends, and    *)
(* whether it raises: after the loop over the arguments has put an integer *)
(* in the place of the string, the search for delimiters in it is a        *)
(* TypeError.                                                              *)
(***************************************************************************)
NotCompletelyResolved(data) ==
    \/ Contains(data, <<"«">>)
    \/ Contains(data, <<"»">>)
    \/ Contains(data, <<"[", "[">>)
    \/ Contains(data, <<"]", "]">>)

RECURSIVE substituteConstants(_, _, _)
RECURSIVE SubstituteItems(_, _, _)

substituteConstants(data, constants, kwargs) ==
    CASE data.t = "str" ->
            LET d1 == PlaceholderLoop(data.s, constants, <<"«">>, <<"»">>)
            IN  IF d1.t # "str"
                THEN [raised |-> FALSE, val |-> d1, errs |-> <<>>]
                ELSE LET d2 == PlaceholderLoop(d1.s, kwargs, <<"[", "[">>, <<"]", "]">>)
                     IN  IF d2.t # "str"
                         THEN [raised |-> TRUE, val |-> NoneV, errs |-> <<>>]
                         ELSE [raised |-> FALSE, val |-> d2,
                               errs |-> IF NotCompletelyResolved(d2.s)
                                        THEN <<[batch |-> 0, k |-> <<>>, v |-> d2.s]>>
                                        ELSE <<>>]
      [] data.t \in {"list", "dict"} ->
            LET r == SubstituteItems(data.items, constants, kwargs)
            IN  [raised |-> r.raised,
                 val |-> IF r.raised THEN NoneV ELSE [data EXCEPT !.items = r.vals],
                 errs |-> r.errs]
      [] OTHER -> [raised |-> FALSE, val |-> data, errs |-> <<>>]

\* the items of a list, the values of a dictionary, in their order
SubstituteItems(items, constants, kwargs) ==
    IF items = <<>> THEN [raised |-> FALSE, vals |-> <<>>, errs |-> <<>>]
    ELSE LET h == substituteConstants(Head(items), constants, kwargs)
         IN  IF h.raised
             THEN [raised |-> TRUE, vals |-> <<>>, errs |-> h.errs]
             ELSE LET r == SubstituteItems(Tail(items), constants, kwargs)
                  IN  [raised |-> r.raised, vals |-> <<h.val>> \o r.vals,
                       errs |-> h.errs \o r.errs]

(***************************************************************************)
(* parseIIIF, for one selected section                                     *)
(***************************************************************************)
parseIIIF(settings, kwargs) ==
    LET r == resolveConstants(settings.constants)
    IN  IF Len(r.errors) # 0
        THEN [status |-> "none", val |-> NoneV, constants |-> r.constants,
              errors |-> r.errors, console |-> r.errors]
        ELSE LET sub == substituteConstants(settings.section, r.constants, kwargs)
             IN  IF sub.raised
                 THEN [status |-> "raised", val |-> NoneV, constants |-> r.constants,
                       errors |-> sub.errs, console |-> <<>>]
                 ELSE [status |-> "ok", val |-> sub.val, constants |-> r.constants,
                       errors |-> sub.errs, console |-> <<>>]

(***************************************************************************)
(* The settings, the arguments and the item values the functions are       *)
(* applied to.                                                             *)
(***************************************************************************)
ConstNames == {<<"a">>, <<"b">>}
ConstValues == {IntV(7), Str(<<>>), Str(<<"x">>), Str(<<"»">>)}
                   \cup {Str(ConstPattern(c)) : c \in ConstNames}
Entries == [k : ConstNames, v : ConstValues]

\* the batches of constants, with MaxConstants constants in all
Sources ==
    UNION {{src \in [1..nb -> SeqsUpTo(Entries, MaxConstants)] :
               /\ \A i \in 1..nb :
                     /\ src[i] # <<>>
                     /\ \A x, y \in DOMAIN src[i] : x # y => src[i][x].k # src[i][y].k
               /\ SumLen(src) <= MaxConstants}
           : nb \in 0..MaxConstants}

\* the arguments of parseIIIF
KwargsSet == {<<>>, <<[k |-> <<"n">>, v |-> IntV(5)]>>, <<[k |-> <<"n">>, v |-> Str(<<"y">>)]>>}

\* what the texts of the templates are made of
TemplateParts == {ConstPattern(<<"a">>), ConstPattern(<<"b">>), ArgPattern(<<"n">>),
                  FillPattern(<<"width">>), FillPattern(<<"file">>), <<"x">>}
Texts == {Concat(q) : q \in SeqsUpTo(TemplateParts, MaxParts)}
Leaves == {Str(tx) : tx \in Texts} \cup {IntV(3), NoneV}
SmallLeaves == {Str(<<"x">>), Str(ConstPattern(<<"a">>)), Str(ArgPattern(<<"n">>)),
                Str(FillPattern(<<"width">>)), IntV(3)}

\* a section: one template, or two of which the second is nested
Sections ==
    {DictV(<<"x">>, <<l>>) : l \in Leaves}
        \cup {DictV(<<"x", "y">>, <<q[1], ListV(<<q[2], DictV(<<"z">>, <<q[3]>>)>>)>>)
              : q \in SmallLeaves \X SmallLeaves \X SmallLeaves}

\* the keyword arguments of the two calls of fillinIIIF in genPages
ItemArgs ==
    {<<[k |-> <<"folder">>, v |-> Str(<<"A">>)], [k |-> <<"file">>, v |-> f]>> \o rest
        : f \in {NoneV, Str(<<"f">>)},
          rest \in {<<>>,
                    <<[k |-> <<"page">>, v |-> Str(<<"p">>)],
                      [k |-> <<"region">>, v |-> Str(<<"f", "u", "l", "l">>)],
                      [k |-> <<"width">>, v |-> IntV(100)],
                      [k |-> <<"height">>, v |-> IntV(200)],
                      [k |-> <<"rot">>, v |-> IntV(0)]>>}}

(***************************************************************************)
(* The calls                                                               *)
(***************************************************************************)
\* the settings are read and the arguments are chosen
InitR ==
    /\ BInit
    /\ rpc = "input"
    /\ rin \in [constants : Sources, section : Sections, kwargs : KwargsSet]
    /\ rres = NoResult
    /\ rfill = NoFill
    /\ rsub = NoResult

\* templates = parseIIIF(settings, selectors, **kwargs)
ParseIIIFCall ==
    /\ rpc = "input"
    /\ rres' = parseIIIF(rin, rin.kwargs)
    /\ rpc' = "parsed"
    /\ UNCHANGED <<rin, rfill, rsub, bvars>>

\* fillinIIIF(v, folder=..., ...) on the resolved templates
FillinIIIFCall ==
    /\ rpc = "parsed"
    /\ rres.status = "ok"
    /\ \E args \in ItemArgs :
          rfill' = [args |-> args, val |-> fillinIIIF(rres.val, args), again |-> NoneV]
    /\ rpc' = "filled"
    /\ UNCHANGED <<rin, rres, rsub, bvars>>

\* parseIIIF on settings whose templates are the resolved ones
ParseIIIFAgain ==
    /\ rpc = "parsed"
    /\ rres.status = "ok"
    /\ rsub' = parseIIIF([rin EXCEPT !.section = rres.val], rin.kwargs)
    /\ rpc' = "reparsed"
    /\ UNCHANGED <<rin, rres, rfill, bvars>>

\* fillinIIIF with the same item values on what it delivered
FillinIIIFAgain ==
    /\ rpc = "filled"
    /\ rfill' = [rfill EXCEPT !.again = fillinIIIF(rfill.val, rfill.args)]
    /\ rpc' = "refilled"
    /\ UNCHANGED <<rin, rres, rsub, bvars>>

NextR ==
    \/ ParseIIIFCall
    \/ FillinIIIFCall
    \/ FillinIIIFAgain
    \/ ParseIIIFAgain

SpecResolver == InitR /\ [][NextR]_vars


(***************************************************************************)
(* Definitions the properties below are stated with.                       *)
(***************************************************************************)
\* a step that is one pass of the loop of genPages
PageStep == pc = "gp" /\ pc' = "gp" /\ gp'.nPages = gp.nPages + 1
\* the reference that pass processes
CurRef == gp.thesePages[gp.nPages + 1]
\* a step in which a call of genPages returns to its caller after its loop
ReturnStep == pc = "gp" /\ pc' \notin {"gp", "crashed"}
\* the key of an item, read off the item
KeyOfItem(it) == <<it.page, it.width, it.height, it.rot>>
KeysOf(items) == {KeyOfItem(items[k]) : k \in 1..Len(items)}
NoTwoItemsShareKey(items) ==
    \A a, b \in 1..Len(items) : a # b => KeyOfItem(items[a]) # KeyOfItem(items[b])
\* presence of the scan of page p for the kind of the running call, from the state
PresentInState(p) ==
    IF prod \in {"preview", "pub"}
    THEN gp.kind \in DOMAIN sizeInfo /\ p \in DOMAIN sizeInfo[gp.kind]
    ELSE <<gp.kind, p>> \in scanFiles
\* the key a page identifier leads to, from the state
KeyInState(p) ==
    IF PresentInState(p)
    THEN LET wh == IF p \in DOMAIN sizeInfo[gp.kind] THEN sizeInfo[gp.kind][p] ELSE <<0, 0>>
         IN <<p, wh[1], wh[2],
              IF gp.kind # "covers" /\ p \in DOMAIN rotateInfo THEN rotateInfo[p] ELSE 0>>
    ELSE <<"filenotfound", 480, 640, 0>>
\* the page identifier of a reference, as the claims describe the decoding
PageOfRef(ref) ==
    IF ref.isStr THEN ref.s
    ELSE IF ref.elems = <<>> THEN "NA" ELSE Head(ref.elems)

(***************************************************************************)
(* C1: the item list of a call of genPages never holds two items with the  *)
(* same item key (page identifier after fallback, width, height,           *)
(* rotation); a reference whose key is the key of an item already in the   *)
(* list emits no item and leaves the list as it is, any other reference    *)
(* appends one item with its key; the documents written hold no such pair  *)
(* either.                                                                 *)
(***************************************************************************)
C1_NoTwoItemsShareKey ==
    [][/\ PageStep =>
            /\ NoTwoItemsShareKey(gp'.items)
            /\ IF KeyInState(PageOfRef(CurRef)) \in KeysOf(gp.items)
               THEN gp'.items = gp.items
               ELSE /\ Len(gp'.items) = Len(gp.items) + 1
                    /\ SubSeq(gp'.items, 1, Len(gp.items)) = gp.items
                    /\ KeyOfItem(gp'.items[Len(gp'.items)]) = KeyInState(PageOfRef(CurRef))
       /\ \A q \in DOMAIN docs' : NoTwoItemsShareKey(docs'[q].items)]_vars

\* a reference has just been dropped because its key was in the list already
C1_Witness ==
    /\ pc = "gp"
    /\ gp.nPages = 3
    /\ Len(gp.items) = 2
    /\ gp.thesePages[3] = gp.thesePages[1]

(***************************************************************************)
(* C2: with the error flag unset, a call of genPages that returns, returns *)
(* (nPages, nItems): nPages is the number of page references of the unit   *)
(* (duplicates and fallbacks included), nItems the number of distinct item *)
(* keys among them.                                                        *)
(***************************************************************************)
C2_ReturnedCounts ==
    [][(ReturnStep /\ ~error) =>
          /\ ret'[1] = Len(gp.thesePages)
          /\ ret'[2] = Cardinality({KeyInState(PageOfRef(gp.thesePages[k])) :
                                       k \in 1..Len(gp.thesePages)})]_vars

\* served context, pages [p1, p2, p1], only p1 in the size index: (3, 2)
C2_Witness ==
    /\ prod = "pub"
    /\ pc = "m_loop"
    /\ ~error
    /\ gp.thesePages = <<StrRef("p1"), StrRef("p2"), StrRef("p1")>>
    /\ DOMAIN sizeInfo["pages"] = {"p1"}
    /\ ret = <<3, 2>>

(***************************************************************************)
(* C3: the error flag is sticky.  Once it is set no step unsets it, and    *)
(* every call made from then on returns at once: genPages returns (0, 0),  *)
(* no document, viewer file or report is written, the output tree is not   *)
(* initialised, the registry of missing files does not change.             *)
(***************************************************************************)
C3_ErrorIsSticky ==
    [][error =>
          /\ error'
          /\ pc' = "idle"
          /\ UNCHANGED <<docs, folderDirs, outputs, missingFiles, scanFiles, nFofCopy>>
          /\ ret' # ret => ret' = <<0, 0>>]_vars

\* genPages was called with the flag set
C3_Witness == error /\ pc = "idle" /\ ret = <<0, 0>>

(***************************************************************************)
(* C4: a pass of the loop over a reference whose scan is not present adds  *)
(* exactly 1 to the registry entry (kind, file, page identifier of the     *)
(* reference) and changes no other entry, and the item it emits, if any,   *)
(* has page "filenotfound", width 480, height 640, rotation 0; a pass over *)
(* a reference whose scan is present leaves the registry unchanged.        *)
(***************************************************************************)
C4_MissingScanFallback ==
    [][PageStep =>
          LET p == PageOfRef(CurRef)
              key == <<gp.kind, gp.file, p>>
          IN IF PresentInState(p)
             THEN missingFiles' = missingFiles
             ELSE /\ DOMAIN missingFiles' = DOMAIN missingFiles \cup {key}
                  /\ missingFiles'[key] =
                        (IF key \in DOMAIN missingFiles THEN missingFiles[key] ELSE 0) + 1
                  /\ \A k \in DOMAIN missingFiles \ {key} : missingFiles'[k] = missingFiles[k]
                  /\ Len(gp'.items) > Len(gp.items) =>
                        LET it == gp'.items[Len(gp'.items)]
                        IN /\ it.page = "filenotfound"
                           /\ it.width = 480
                           /\ it.height = 640
                           /\ it.rot = 0]_vars

\* a missing page was referred to twice: its entry counts 2, one fallback item
C4_Witness ==
    /\ pc = "gp"
    /\ \E k \in DOMAIN missingFiles : missingFiles[k] = 2 /\ k[3] = "p2"
    /\ \E n \in 1..Len(gp.items) : gp.items[n].page = "filenotfound"

(***************************************************************************)
(* C5: a call of genPages that returns has written the manifest document   *)
(* of its unit if and only if its item list is not empty; and when         *)
(* manifests() has finished with file level manifests, the directory of a  *)
(* folder exists if and only if one of its files produced an item (it      *)
(* then holds a document).                                                 *)
(***************************************************************************)
C5_DocumentsAndFolders ==
    /\ [][(ReturnStep /\ ~error) =>
             LET path == IF manifestLevel = "folder" THEN <<gp.folder>>
                         ELSE <<gp.folder, gp.file>>
             IN IF gp.items # <<>>
                THEN /\ DOMAIN docs' = DOMAIN docs \cup {path}
                     /\ path \notin DOMAIN docs
                     /\ docs'[path].items = gp.items
                ELSE docs' = docs]_vars
    /\ [](outputs.report.written /\ pc = "idle" /\ manifestLevel = "file" =>
             \A k \in 1..Len(FolderList) :
                LET fo == FolderList[k]
                    filled == {fi \in FileSet(fo) :
                                  /\ fo \in DOMAIN pages.pages
                                  /\ fi \in DOMAIN pages.pages[fo]
                                  /\ pages.pages[fo][fi] # <<>>}
                IN /\ fo \in folderDirs <=> filled # {}
                   /\ fo \in folderDirs <=> \E q \in DOMAIN docs : Len(q) = 2 /\ q[1] = fo
                   /\ \A fi \in FileSet(fo) : <<fo, fi>> \in DOMAIN docs <=> fi \in filled)

\* file level: folder A kept with a document for one file only, folder B removed
C5_Witness ==
    /\ outputs.report.written
    /\ pc = "idle"
    /\ manifestLevel = "file"
    /\ folderDirs = {"A"}
    /\ DOMAIN docs = {<<"A", "f2">>}
    /\ "A" \in DOMAIN pages.pages
    /\ "f1" \in DOMAIN pages.pages["A"]

(***************************************************************************)
(* C6: zone based, a pass of the loop decodes its reference so: an empty   *)
(* sequence is page "NA" with region "full", a sequence of one element is  *)
(* that element with region "full", a sequence of two or more elements is  *)
(* (first element, second element), a bare string is that string with      *)
(* region "full".  Not zone based, the region is always "full".            *)
(***************************************************************************)
C6_RegionDecoding ==
    [][PageStep =>
          LET ref == CurRef
          IN IF zoneBased
             THEN IF ref.isStr THEN gp'.p0 = ref.s /\ gp'.region = "full"
                  ELSE IF Len(ref.elems) = 0 THEN gp'.p0 = "NA" /\ gp'.region = "full"
                  ELSE IF Len(ref.elems) = 1
                       THEN gp'.p0 = ref.elems[1] /\ gp'.region = "full"
                  ELSE gp'.p0 = ref.elems[1] /\ gp'.region = ref.elems[2]
             ELSE gp'.region = "full" /\ gp'.p0 = ref.s]_vars

\* a reference of three elements was decoded: the third is ignored
C6_Witness ==
    /\ zoneBased
    /\ pc = "gp"
    /\ gp.nPages >= 1
    /\ gp.thesePages[gp.nPages] = SeqRef(<<"p1", "r2", "x">>)
    /\ gp.region = "r2"
    /\ Len(gp.items) >= 1
    /\ gp.items[Len(gp.items)].region = "r2"



(***************************************************************************)
(* Definitions the properties of the resolver are stated with.             *)
(***************************************************************************)
\* the section is one template whose value is a string
OneText(section) ==
    section.t = "dict" /\ Len(section.items) = 1 /\ section.items[1].t = "str"

\* no string of the fragment contains one of the patterns
RECURSIVE PatternFree(_, _)
PatternFree(frag, pats) ==
    CASE frag.t = "str" -> \A pt \in pats : ~Contains(frag.s, pt)
      [] frag.t \in {"list", "dict"} ->
            \A i \in DOMAIN frag.items : PatternFree(frag.items[i], pats)
      [] OTHER -> TRUE

\* the placeholders parseIIIF knows after the resolution of the constants
ParsePatterns ==
    {ConstPattern(rres.constants[i].k) : i \in DOMAIN rres.constants}
        \cup {ArgPattern(rin.kwargs[i].k) : i \in DOMAIN rin.kwargs}
\* the placeholders fillinIIIF was called with
FillPatterns == {FillPattern(rfill.args[i].k) : i \in DOMAIN rfill.args}

\* the whole text L is the placeholder P of the integer n, or holds it with other text
Promotes(L, P, n, returned, out) ==
    /\ L = P => returned /\ out = IntV(n)
    /\ (Contains(L, P) /\ L # P) =>
           returned /\ out.t = "str" /\ Contains(out.s, Digits(n))

\* the entries of the batches in the order of their resolution
RECURSIVE Flatten(_, _)
Flatten(source, i) ==
    IF i > Len(source) THEN <<>>
    ELSE [j \in DOMAIN source[i] |-> [batch |-> i, k |-> source[i][j].k, v |-> source[i][j].v]]
             \o Flatten(source, i + 1)

\* the text is made of characters that are no delimiters and of references to names
RECURSIVE WellFormed(_, _)
WellFormed(tx, names) ==
    IF tx = <<>> THEN TRUE
    ELSE IF Head(tx) = "«"
         THEN /\ Len(tx) >= 3
              /\ <<tx[2]>> \in names
              /\ tx[3] = "»"
              /\ WellFormed(SubSeq(tx, 4, Len(tx)), names)
         ELSE Head(tx) # "»" /\ WellFormed(Tail(tx), names)

\* the names declared in the batches of a range
NamesIn(source, range) ==
    UNION {{source[b][j].k : j \in DOMAIN source[b]} : b \in range}

\* entry j, in the order of resolution, refers to what no entry before it declares,
\* or holds a delimiter that belongs to no reference
EntryFails(flat, j) ==
    /\ flat[j].v.t = "str"
    /\ ~WellFormed(flat[j].v.s, {flat[x].k : x \in 1..(j - 1)})

\* every value refers to constants of strictly earlier batches only
NoForwardReference(source) ==
    \A i \in DOMAIN source : \A j \in DOMAIN source[i] :
        source[i][j].v.t = "str" =>
            WellFormed(source[i][j].v.s, NamesIn(source, 1..(i - 1)))

(***************************************************************************)
(* C7: a text that is exactly one placeholder of an integer value resolves *)
(* to that integer, and a text that holds the placeholder together with    *)
(* other text resolves to a string in which the decimal text of the value  *)
(* stands; for the constants and the arguments of parseIIIF and for the    *)
(* item values of fillinIIIF.  The code does not do this: an argument      *)
(* placeholder that is the whole text raises a TypeError, and a text that  *)
(* the earlier constants reduce to the placeholder becomes the integer.    *)
(***************************************************************************)
C7_IntegerPromotion ==
    /\ (rpc = "parsed" /\ rres.status # "none" /\ OneText(rin.section)) =>
          LET L == rin.section.items[1].s
              returned == rres.status = "ok"
              out == IF returned THEN rres.val.items[1] ELSE NoneV
          IN  /\ \A i \in DOMAIN rres.constants :
                    rres.constants[i].v.t = "int" =>
                        Promotes(L, ConstPattern(rres.constants[i].k),
                                 rres.constants[i].v.n, returned, out)
              /\ \A i \in DOMAIN rin.kwargs :
                    rin.kwargs[i].v.t = "int" =>
                        Promotes(L, ArgPattern(rin.kwargs[i].k),
                                 rin.kwargs[i].v.n, returned, out)
    /\ (rpc = "filled" /\ OneText(rres.val)) =>
          \A i \in DOMAIN rfill.args :
              rfill.args[i].v.t = "int" =>
                  Promotes(rres.val.items[1].s, FillPattern(rfill.args[i].k),
                           rfill.args[i].v.n, TRUE, rfill.val.items[1])

(***************************************************************************)
(* C8: on a fragment in which no placeholder occurs, substituteConstants   *)
(* and fillinIIIF deliver a fragment equal to it, in value and in shape,   *)
(* so that the second application to what the first one delivered changes  *)
(* nothing.                                                                *)
(***************************************************************************)
C8_SubstitutionIdempotent ==
    /\ (rpc = "parsed" /\ rres.status # "none" /\ PatternFree(rin.section, ParsePatterns)) =>
          rres.status = "ok" /\ rres.val = rin.section
    /\ (rpc = "reparsed" /\ PatternFree(rres.val, ParsePatterns)) =>
          rsub.status = "ok" /\ rsub.val = rres.val
    /\ (rpc = "filled" /\ PatternFree(rres.val, FillPatterns)) =>
          rfill.val = rres.val
    /\ (rpc = "refilled" /\ PatternFree(rfill.val, FillPatterns)) =>
          rfill.again = rfill.val

\* a nested section with placeholders, resolved, is given to parseIIIF again
C8_Witness ==
    /\ rpc = "reparsed"
    /\ Len(rin.section.items) = 2
    /\ rres.val # rin.section
    /\ PatternFree(rres.val, ParsePatterns)
    /\ rsub.val = rres.val
    /\ rres.val.items[2].t = "list"

C10_EarlierBatchesOnly ==
    rpc = "parsed" =>
        \A i \in DOMAIN rin.constants : \A j \in DOMAIN rin.constants[i] :
            LET e == rin.constants[i][j]
                later == NamesIn(rin.constants, i..Len(rin.constants))
                             \ NamesIn(rin.constants, 1..(i - 1))
            IN  (e.v.t = "str" /\ \E c \in later : Contains(e.v.s, ConstPattern(c))) =>
                    /\ rres.status = "none"
                    /\ \E x \in DOMAIN rres.errors :
                          rres.errors[x].batch = i /\ rres.errors[x].k = e.k

\* the strings of a fragment that hold a delimiter of parseIIIF, in their order
RECURSIVE UnresolvedTexts(_)
RECURSIVE UnresolvedTextsOf(_)
UnresolvedTexts(frag) ==
    CASE frag.t = "str" -> IF NotCompletelyResolved(frag.s) THEN <<frag.s>> ELSE <<>>
      [] frag.t \in {"list", "dict"} -> UnresolvedTextsOf(frag.items)
      [] OTHER -> <<>>
UnresolvedTextsOf(items) ==
    IF items = <<>> THEN <<>>
    ELSE UnresolvedTexts(Head(items)) \o UnresolvedTextsOf(Tail(items))

(***************************************************************************)
(* C11: when the constants resolve and parseIIIF returns, it returns the   *)
(* section, not None, each string of which that still holds a delimiter    *)
(* («, », [[ or ]]) stands in it as it is, and one error for each such     *)
(* string has been reported on the console.  The code does not do this:    *)
(* it prints the errors before the templates are substituted, so that the  *)
(* errors of the substitution are collected and never shown.               *)
(***************************************************************************)
C11_UnresolvedReported ==
    (rpc = "parsed" /\ rres.status = "ok") =>
        /\ rres.val # NoneV
        /\ Len(rres.console) = Len(UnresolvedTexts(rres.val))
        /\ \A i \in DOMAIN rres.console :
              rres.console[i].v = UnresolvedTexts(rres.val)[i]

\* what the code does keep of the claim: the section is returned and the errors
\* are in the list parseIIIF never prints
C11_CollectedOnly ==
    (rpc = "parsed" /\ rres.status = "ok") =>
        /\ rres.val # NoneV
        /\ rres.console = <<>>
        /\ Len(rres.errors) = Len(UnresolvedTexts(rres.val))
        /\ \A i \in DOMAIN rres.errors : rres.errors[i].v = UnresolvedTexts(rres.val)[i]

\* a run of manifests() has finished
RunFinished == outputs.reported.written /\ pc = "idle" /\ runs > 0

(***************************************************************************)
(* C12: the totals manifests() reports at the end of a run are the         *)
(* aggregates over all calls of genPages of that run: every call that      *)
(* returns adds its page count to p and its item count to i, and adds 1 to *)
(* m when it wrote a document, so that m is the number of documents        *)
(* written.  The code does not do this: the call for the covers is made    *)
(* before the totals are set to 0 and its result is dropped.               *)
(***************************************************************************)
C12_TotalsAggregate ==
    /\ [][(ReturnStep /\ ~error) =>
             /\ tot'.p = tot.p + ret'[1]
             /\ tot'.i = tot.i + ret'[2]
             /\ tot'.m = tot.m + Cardinality(DOMAIN docs' \ DOMAIN docs)]_vars
    /\ [](RunFinished =>
             /\ outputs.reported.p = tot.p
             /\ outputs.reported.i = tot.i
             /\ outputs.reported.m = tot.m
             /\ outputs.reported.m = Cardinality(DOMAIN docs))

\* what the code does keep of the claim: the totals are the aggregates over the
\* calls of genPages for the pages
C12_TotalsOfPages ==
    /\ [][(ReturnStep /\ ~error /\ gp.kind = "pages") =>
             /\ tot'.p = tot.p + ret'[1]
             /\ tot'.i = tot.i + ret'[2]
             /\ tot'.m = tot.m + Cardinality(DOMAIN docs' \ DOMAIN docs)]_vars
    /\ [](RunFinished =>
             /\ outputs.reported.p = tot.p
             /\ outputs.reported.i = tot.i
             /\ outputs.reported.m = tot.m
             /\ outputs.reported.m = Cardinality(DOMAIN docs \ {<<"covers">>}))

(***************************************************************************)
(* C13: initialisation sets the error flag for a folder of the inventory   *)
(* that is not in the page data and not excluded, and for no folder that   *)
(* is excluded or in the page data: once the object is constructed the     *)
(* flag is set if and only if some folder that is not excluded is absent   *)
(* from the page data (without a configuration nothing is excluded and the *)
(* page data are empty).                                                   *)
(***************************************************************************)
C13_ErrorIffUnexcludedAbsent ==
    pc # "new" =>
        (error <=> \E f \in FolderSet : f \notin excludedFolders /\ f \notin DOMAIN pages.pages)

\* folder B is absent and excluded, folder A is there: the flag is not set
C13_Witness ==
    /\ pc = "idle"
    /\ ~error
    /\ "B" \in excludedFolders
    /\ "B" \notin DOMAIN pages.pages
    /\ "A" \in DOMAIN pages.pages
    /\ "A" \notin excludedFolders

\* presence of the scan of page p of a kind, from the state
PresentOf(kind, p) ==
    IF prod \in {"preview", "pub"}
    THEN kind \in DOMAIN sizeInfo /\ p \in DOMAIN sizeInfo[kind]
    ELSE <<kind, p>> \in scanFiles
\* the units manifests() calls genPages for: kind, folder, file
RunUnits ==
    (IF doCovers THEN {<<"covers", None, None>>} ELSE {})
        \cup (IF manifestLevel = "folder"
              THEN {<<"pages", f, None>> : f \in FolderSet}
              ELSE {<<"pages", u[1], u[2]>> : u \in Units})
\* the page references of a unit
RefsOfUnit(u) == ThesePages(manifestLevel, pages, u[1], u[2], u[3])
\* the positions of the references of a unit to page p whose scan is absent
AbsentRefs(u, p) ==
    {k \in 1..Len(RefsOfUnit(u)) :
        PageOfRef(RefsOfUnit(u)[k]) = p /\ ~PresentOf(u[1], p)}
\* the registry entries the references of the run lead to
AbsentEntries ==
    {e \in {<<u[1], u[3], p>> : u \in RunUnits, p \in PageIds \cup CoverIds \cup {"NA"}} :
        \E u \in RunUnits : u[1] = e[1] /\ u[3] = e[2] /\ AbsentRefs(u, e[3]) # {}}
\* the number of references of the units of S to page p, its scan being absent
RECURSIVE AbsentCount(_, _)
AbsentCount(S, p) ==
    IF S = {} THEN 0
    ELSE LET u == CHOOSE x \in S : TRUE
         IN Cardinality(AbsentRefs(u, p)) + AbsentCount(S \ {u}, p)
\* the number of references of the units of S to a page whose scan is absent
RECURSIVE AbsentTotal(_)
AbsentTotal(S) ==
    IF S = {} THEN 0
    ELSE LET u == CHOOSE x \in S : TRUE
         IN Cardinality({k \in 1..Len(RefsOfUnit(u)) :
                            ~PresentOf(u[1], PageOfRef(RefsOfUnit(u)[k]))})
                + AbsentTotal(S \ {u})

(***************************************************************************)
(* C14: within a run of manifests() the registry of missing files only     *)
(* grows: no step of the run removes an entry (kind, file, page) or lowers *)
(* a count.  The report written at the end has one row for each entry,     *)
(* with its count, and its total of occurrences is the number of page      *)
(* references processed in the run whose scan was absent, duplicates and   *)
(* references whose item was dropped included.                             *)
(***************************************************************************)
C14_RegistryGrows ==
    /\ [][pc \notin {"new", "idle"} =>
             \A k \in DOMAIN missingFiles :
                 k \in DOMAIN missingFiles' /\ missingFiles'[k] >= missingFiles[k]]_vars
    /\ [](RunFinished =>
             /\ outputs.report.rows = missingFiles
             /\ DOMAIN outputs.report.rows = AbsentEntries
             /\ \A e \in DOMAIN outputs.report.rows :
                   outputs.report.rows[e] =
                       AbsentCount({u \in RunUnits : u[1] = e[1] /\ u[3] = e[2]}, e[3])
             /\ outputs.report.nMissing = AbsentTotal(RunUnits))

\* a missing page referred to twice in one unit and once in another unit: the
\* report counts three occurrences
C14_Witness ==
    /\ RunFinished
    /\ outputs.report.nMissing = 3
    /\ \E e \in DOMAIN outputs.report.rows : outputs.report.rows[e] >= 2
    /\ manifestLevel = "folder"
    /\ \E d \in DOMAIN docs :
          Len(docs[d].items) = 1 /\ Len(RefsOfUnit(<<"pages", d[1], None>>)) >= 2

\* the placeholder image is in the directory of the scans of a kind
PlaceholderThere(kind) == <<kind, "filenotfound">> \in scanFiles

(***************************************************************************)
(* C15: the placeholder image is copied into the directory of a kind only  *)
(* by a pass of genPages over a reference of that kind that fell back to   *)
(* the placeholder, and only when the image is not there yet; the pass     *)
(* that emits the fallback item copies it when it is not there.  Once the  *)
(* image is there it stays and is not copied again: it is copied at most   *)
(* once per kind, and never when no reference of the kind is missing.      *)
(***************************************************************************)
C15_PlaceholderCopiedOnce ==
    /\ [][\A kind \in Kinds :
             /\ nFofCopy'[kind] # nFofCopy[kind] =>
                   /\ PageStep
                   /\ gp.kind = kind
                   /\ ~PresentInState(PageOfRef(CurRef))
                   /\ ~PlaceholderThere(kind)
                   /\ PlaceholderThere(kind)'
                   /\ nFofCopy'[kind] = nFofCopy[kind] + 1
             /\ PlaceholderThere(kind) =>
                   PlaceholderThere(kind)' /\ nFofCopy'[kind] = nFofCopy[kind]
             /\ (PageStep /\ gp.kind = kind /\ ~PresentInState(PageOfRef(CurRef))
                     /\ Len(gp'.items) > Len(gp.items) /\ ~PlaceholderThere(kind)) =>
                   nFofCopy'[kind] = nFofCopy[kind] + 1]_vars
    /\ [](\A kind \in Kinds :
             /\ nFofCopy[kind] <= 1
             /\ nFofCopy[kind] = 1 =>
                   PlaceholderThere(kind) /\ \E e \in DOMAIN missingFiles : e[1] = kind)

\* two units of one run fell back to the placeholder: it was copied once
C15_Witness ==
    /\ RunFinished
    /\ nFofCopy["pages"] = 1
    /\ Cardinality({d \in DOMAIN docs :
                       \E n \in 1..Len(docs[d].items) :
                           docs[d].items[n].page = "filenotfound" /\ d # <<"covers">>}) = 2

\* the region of a reference, as the claims describe the decoding
RegionOfRef(ref) ==
    IF zoneBased /\ ~ref.isStr /\ Len(ref.elems) >= 2 THEN ref.elems[2] ELSE "full"
\* the item of a reference of the running call, from the state
ItemOfRef(ref) ==
    LET key == KeyInState(PageOfRef(ref))
    IN [folder |-> gp.folder, file |-> gp.file, page |-> key[1], region |-> RegionOfRef(ref),
        width |-> key[2], height |-> key[3], rot |-> key[4]]
\* the items of the first occurrences of the keys among the first n references
RECURSIVE FirstOccurrences(_, _)
FirstOccurrences(refs, n) ==
    IF n = 0 THEN <<>>
    ELSE IF \E k \in 1..(n - 1) :
                KeyInState(PageOfRef(refs[k])) = KeyInState(PageOfRef(refs[n]))
         THEN FirstOccurrences(refs, n - 1)
         ELSE Append(FirstOccurrences(refs, n - 1), ItemOfRef(refs[n]))

(***************************************************************************)
(* C16: the item list of genPages is, after every pass of its loop, the    *)
(* sequence of the items of the first occurrences of the distinct item     *)
(* keys among the references processed, in the order of those first        *)
(* occurrences; the list is put into the document, under "items", only     *)
(* when all references of the unit have been processed.                    *)
(***************************************************************************)
C16_ItemOrder ==
    /\ [](pc = "gp" => gp.items = FirstOccurrences(gp.thesePages, gp.nPages))
    /\ [][(pc = "gp" /\ docs' # docs) =>
             /\ gp.nPages = Len(gp.thesePages)
             /\ \E path \in DOMAIN docs' :
                   /\ \A q \in DOMAIN docs' \ {path} : q \in DOMAIN docs /\ docs'[q] = docs[q]
                   /\ docs'[path].items = FirstOccurrences(gp.thesePages, Len(gp.thesePages))]_vars

\* [p2, p1, p2] with both scans there: the document holds p2, then p1
C16_Witness ==
    /\ pc = "m_loop"
    /\ gp.thesePages = <<StrRef("p2"), StrRef("p1"), StrRef("p2")>>
    /\ <<gp.folder>> \in DOMAIN docs
    /\ Len(docs[<<gp.folder>>].items) = 2
    /\ docs[<<gp.folder>>].items[1].page = "p2"
    /\ docs[<<gp.folder>>].items[2].page = "p1"

\* the positions of the fallback items in an item list
FallbackItems(items) == {k \in 1..Len(items) : items[k].page = "filenotfound"}
\* the positions, among the first n references of the running call, of the
\* references whose scan is absent
MissingRefs(n) == {k \in 1..n : ~PresentInState(PageOfRef(gp.thesePages[k]))}

(***************************************************************************)
(* C17: a call of genPages emits at most one item with the identifier      *)
(* "filenotfound", whatever the number of distinct missing pages of the    *)
(* unit: the first missing reference emits it, with the key                *)
(* ("filenotfound", 480, 640, 0), the later ones emit nothing; each of     *)
(* them adds 1 to the page count and 1 to the registry entry of its own    *)
(* page identifier.                                                        *)
(***************************************************************************)
C17_OneFallbackItem ==
    /\ [](pc = "gp" =>
             /\ Cardinality(FallbackItems(gp.items)) <= 1
             /\ FallbackItems(gp.items) # {} <=> MissingRefs(gp.nPages) # {}
             /\ \A k \in FallbackItems(gp.items) :
                   KeyOfItem(gp.items[k]) = <<"filenotfound", 480, 640, 0>>)
    /\ [][(PageStep /\ ~PresentInState(PageOfRef(CurRef))) =>
             LET own == <<gp.kind, gp.file, PageOfRef(CurRef)>>
             IN /\ gp'.nPages = gp.nPages + 1
                /\ own \in DOMAIN missingFiles'
                /\ own[3] # "filenotfound"
                /\ missingFiles'[own] =
                      (IF own \in DOMAIN missingFiles THEN missingFiles[own] ELSE 0) + 1
                /\ gp'.items # gp.items <=> MissingRefs(gp.nPages) = {}]_vars

\* two distinct missing pages in one unit: one fallback item, two registry entries
C17_Witness ==
    /\ pc = "gp"
    /\ gp.nPages = 2
    /\ PageOfRef(gp.thesePages[1]) # PageOfRef(gp.thesePages[2])
    /\ MissingRefs(2) = {1, 2}
    /\ Len(gp.items) = 1
    /\ gp.items[1].page = "filenotfound"
    /\ <<gp.kind, gp.file, PageOfRef(gp.thesePages[1])>> \in DOMAIN missingFiles
    /\ <<gp.kind, gp.file, PageOfRef(gp.thesePages[2])>> \in DOMAIN missingFiles

\* the positions, among the first n references of the running call, of the
\* references to page p
RefsTo(p, n) == {k \in 1..n : PageOfRef(gp.thesePages[k]) = p}
\* the least element of a set of numbers that is not empty
Least(S) == CHOOSE k \in S : \A j \in S : k <= j

(***************************************************************************)
(* C18: the region is no part of the deduplication key of genPages.  Zone  *)
(* based, the references of a unit to one page whose scan is present       *)
(* produce a single item, which carries the region of the first of them;   *)
(* the regions of the later ones do not come into the item list.           *)
(***************************************************************************)
C18_RegionNotInKey ==
    (pc = "gp" /\ zoneBased) =>
        \A p \in PageIds \cup {"NA"} :
            (RefsTo(p, gp.nPages) # {} /\ PresentInState(p)) =>
                LET its == {n \in 1..Len(gp.items) : gp.items[n].page = p}
                    first == gp.thesePages[Least(RefsTo(p, gp.nPages))]
                IN /\ Cardinality(its) = 1
                   /\ \A n \in its : gp.items[n].region = RegionOfRef(first)

\* [p1 r1], [p1 r2 x] with the scan of p1 there: one item, with region r1
C18_Witness ==
    /\ pc = "gp"
    /\ zoneBased
    /\ gp.thesePages = <<SeqRef(<<"p1", "r1">>), SeqRef(<<"p1", "r2", "x">>)>>
    /\ gp.nPages = 2
    /\ PresentInState("p1")
    /\ Len(gp.items) = 1
    /\ gp.items[1].page = "p1"
    /\ gp.items[1].region = "r1"

\* the units of the inventory for the pages: folder, file
PageUnits ==
    IF manifestLevel = "folder" THEN {<<f, None>> : f \in FolderSet} ELSE Units
\* the page references the page data hold for a unit of the inventory
InventoryRefs(u) ==
    IF u[1] \notin DOMAIN pages.pages THEN <<>>
    ELSE IF manifestLevel = "folder" THEN pages.pages[u[1]]
    ELSE IF u[2] \in DOMAIN pages.pages[u[1]] THEN pages.pages[u[1]][u[2]] ELSE <<>>
\* the number of page references of the units of S
RECURSIVE InventoryTotal(_)
InventoryTotal(S) ==
    IF S = {} THEN 0
    ELSE LET u == CHOOSE x \in S : TRUE
         IN Len(InventoryRefs(u)) + InventoryTotal(S \ {u})

(***************************************************************************)
(* C19: exclusion does not suppress generation.  A run of manifests() that *)
(* finishes has called genPages for every folder, and every file of every  *)
(* folder, of the inventory, excluded or not: the total p counts the page  *)
(* references of all of them, and every unit that has page references in   *)
(* the page data, also one of an excluded folder, has its document.        *)
(***************************************************************************)
C19_ExcludedStillGenerated ==
    RunFinished =>
        /\ outputs.reported.p = InventoryTotal(PageUnits)
        /\ \A u \in PageUnits :
              InventoryRefs(u) # <<>> =>
                  /\ (IF manifestLevel = "folder" THEN <<u[1]>> ELSE <<u[1], u[2]>>)
                         \in DOMAIN docs
                  /\ outputs.reported.m >= 1

\* folder A is excluded and has page references: its document is written
C19_Witness ==
    /\ RunFinished
    /\ manifestLevel = "folder"
    /\ "A" \in excludedFolders
    /\ "B" \notin excludedFolders
    /\ <<"A">> \in DOMAIN docs
    /\ <<"B">> \in DOMAIN docs
    /\ outputs.reported.m = 2
    /\ outputs.reported.p = Len(pages.pages["A"]) + Len(pages.pages["B"])

\* the size index of the kind of the running call: sizeInfo.get(kind, {})
SizesOfKind == IF gp.kind \in DOMAIN sizeInfo THEN sizeInfo[gp.kind] ELSE EmptyMap

(***************************************************************************)
(* C20: the presence of a scan follows two paths.  For the deployments     *)
(* "preview" and "pub" a page is present exactly when the size index of    *)
(* its kind has it, and the item of a present page carries the width and   *)
(* height of that entry.  For any other deployment a page is present       *)
(* exactly when its scan file exists; a page whose file exists and that    *)
(* the size index does not have yields an item of width 0 and height 0 and *)
(* is not recorded as missing.  On both paths the rotation of a present    *)
(* page is its entry in the rotation index, and 0 when it has none or the  *)
(* kind is "covers".                                                       *)
(***************************************************************************)
C20_ScanPresence ==
    [][PageStep =>
          LET p == PageOfRef(CurRef)
              served == prod \in {"preview", "pub"}
              taken == gp'.p = p /\ missingFiles' = missingFiles
              fellBack == gp'.p = "filenotfound" /\ missingFiles' # missingFiles
              emitted == Len(gp'.items) > Len(gp.items)
              it == gp'.items[Len(gp'.items)]
          IN /\ taken \/ fellBack
             /\ served => (taken <=> p \in DOMAIN SizesOfKind)
             /\ ~served => (taken <=> <<gp.kind, p>> \in scanFiles)
             /\ (taken /\ emitted) =>
                   /\ it.page = p
                   /\ IF p \in DOMAIN SizesOfKind
                      THEN it.width = SizesOfKind[p][1] /\ it.height = SizesOfKind[p][2]
                      ELSE ~served /\ it.width = 0 /\ it.height = 0
                   /\ it.rot = IF gp.kind = "covers" \/ p \notin DOMAIN rotateInfo
                               THEN 0 ELSE rotateInfo[p]]_vars

\* not served: the file of p1 exists, the size index does not have p1, the
\* rotation index does: an item of 0 by 0 with that rotation, nothing missing
C20_Witness ==
    /\ pc = "gp"
    /\ prod = "dev"
    /\ gp.kind = "pages"
    /\ <<"pages", "p1">> \in scanFiles
    /\ "p1" \notin DOMAIN sizeInfo["pages"]
    /\ "p1" \in DOMAIN rotateInfo
    /\ gp.nPages = 1
    /\ gp.p = "p1"
    /\ Len(gp.items) = 1
    /\ gp.items[1].width = 0
    /\ gp.items[1].height = 0
    /\ gp.items[1].rot = rotateInfo["p1"]
    /\ missingFiles = EmptyMap

=============================================================================
